---- MODULE Spec2Model ----
(***************************************************************************)
(* Nolu player statistics API: the User and Match collections, the stats   *)
(* aggregator calculateUserStats and the route handlers that mutate an     *)
(* account's match set (signup, add-match, delete-match, reset-stats,      *)
(* delete-account).  In Spec every handler is one atomic action: requests  *)
(* are served one after the other, and each awaited database call may      *)
(* reject; the rejection point of a request is the input f, kept in        *)
(* `fault`.  AggSpec, ExampleSpec and BoundarySpec run the match routes of *)
(* one account without rejections over larger palettes of request bodies;  *)
(* AwaitSpec splits the match routes at their awaits and interleaves two   *)
(* connections.  AccessSpec puts the authentication middleware in front of *)
(* the protected routes and adds the privacy setting and the public read   *)
(* routes; BrowserSpec runs the frontend App of one browser (`app`)        *)
(* against signup, login and delete-account.                               *)
(*                                                                         *)
(* Numbers.  Counters (kills, wins, ...) are integers, or InfinityCount    *)
(* for the Number Infinity, which parseInt returns for a digit text beyond *)
(* Number.MAX_VALUE and which every sum it enters equals.  The four ratio  *)
(* fields of a summary are JavaScript Numbers that need not be integers or *)
(* finite; they are held as [kind |-> "finite", hundredths |-> h] (the     *)
(* value h/100), NaN or Infinity.  All other integers of the model are far *)
(* below 2^53, where double arithmetic on them is exact and the nearest    *)
(* double of a quotient lies on the same side of every rounding boundary   *)
(* as the quotient itself, except on an exact tie, see toFixed.            *)
(***************************************************************************)
EXTENDS Integers, Sequences, FiniteSets, TLC

VARIABLES
    users,        \* User collection: ObjectId -> document, for stored accounts
    tokens,       \* ObjectIds for which a JWT was issued (it outlives the account)
    matches,      \* Match collection in natural (insertion) order
    nextMatchId,  \* the next fresh Match _id
    fault,        \* the database call that rejected in the request served last
    req,          \* the request served last: [id (req.user.id), matchId (req.params.id)]
    res,          \* the response sent last: [status, message, stats]
    calls,        \* the handlers suspended at an await, by connection
    app           \* the App component in one browser: its state, localStorage,
                  \* the location and the page rendered there

vars == <<users, tokens, matches, nextMatchId, fault, req, res, calls, app>>

----------------------------------------------------------------------------
(* Bounds and input palettes *)

\* matches added in an aggregation run, and in a request run
MaxMatches == 3
MaxAdds == 2

\* connections that can have a request in flight
Connections == {"c1", "c2"}
UserIdSeq == <<"u1", "u2">>
UserIds == {UserIdSeq[i] : i \in 1..Len(UserIdSeq)}
Handles == {"nolu", "p2"}

Outcomes == {"Win", "Loss", "Draw"}
MatchTypes == {"Ranked", "Casual", "Tournament", "Practice"}
\* texts that cast to a Date
ValidDates == {"2024-05-01"}

RatioFields == {"kdRatio", "damagePerRound", "winPercentage", "killsPerRound"}
CountFields == {"wins", "kills", "deaths", "assists", "totalGames",
                "totalRounds", "totalDamage"}
StatFields == RatioFields \cup CountFields

----------------------------------------------------------------------------
(* JavaScript values *)

Finite(h) == [kind |-> "finite", hundredths |-> h]
NaN == [kind |-> "NaN"]
Infinity == [kind |-> "Infinity"]
\* the counter value that stands for Infinity
InfinityCount == 1000000000
\* the Number of a counter value
Num(n) == IF n = InfinityCount THEN Infinity ELSE Finite(100 * n)
\* a + b for counter values: Infinity once a or b is
Plus(a, b) ==
    LET sum == a + b
    IN  IF sum >= InfinityCount THEN InfinityCount ELSE sum

Pow10(d) == IF d = 0 THEN 1 ELSE IF d = 1 THEN 10 ELSE 100

\* a / b for non-negative counter values a, b: the exact quotient, or NaN,
\* Infinity
Divide(a, b) ==
    IF a = InfinityCount
    THEN (IF b = InfinityCount THEN NaN ELSE Infinity)
    ELSE IF b = InfinityCount
    THEN [kind |-> "ratio", num |-> 0, den |-> 1]
    ELSE IF b = 0
    THEN (IF a = 0 THEN NaN ELSE Infinity)
    ELSE [kind |-> "ratio", num |-> a, den |-> b]

\* x * k
Times(x, k) ==
    IF x.kind = "ratio" THEN [kind |-> "ratio", num |-> x.num * k, den |-> x.den]
    ELSE IF x.kind = "Infinity" /\ k = 0 THEN NaN
    ELSE x

\* toFixed that cuts the further decimals off instead of rounding
toFixed_Truncate(x, digits) ==
    IF x.kind = "ratio"
    THEN [kind |-> "decimal", digits |-> digits,
          units |-> (x.num * Pow10(digits)) \div x.den]
    ELSE [kind |-> x.kind]

\* Number.prototype.toFixed(digits): the decimal text with `digits` decimals
\* nearest to x, the larger one on a tie; "NaN" and "Infinity" for those.
\* A quotient lies exactly between two such decimals only if its reduced
\* denominator is 2 (digits 0), 4 or 20 (digits 1), 8, 40 or 200 (digits 2);
\* with 2, 4 and 8 the double holds the quotient exactly and the larger
\* decimal is taken, the other denominators are beyond the totals reached.
toFixed(x, digits) ==
    IF x.kind = "ratio"
    THEN [kind |-> "decimal", digits |-> digits,
          units |-> (2 * x.num * Pow10(digits) + x.den) \div (2 * x.den)]
    ELSE [kind |-> x.kind]

\* parseFloat of a text produced by toFixed
parseFloat(s) ==
    IF s.kind = "decimal"
    THEN Finite(s.units * Pow10(2 - s.digits))
    ELSE s

\* Request-body values of the numeric fields
Undefined == [t |-> "undefined"]
JsNumber(halves) == [t |-> "number", halves |-> halves]
JsText == [t |-> "string"]
\* a text of 400 decimal digits
JsDigits == [t |-> "digits"]

\* parseInt(v): truncation toward zero of a number, Infinity for the text of
\* 400 digits, NaN for a text without leading digits and for undefined
parseInt(v) ==
    IF v.t = "number"
    THEN Num(IF v.halves >= 0 THEN v.halves \div 2 ELSE -((-v.halves) \div 2))
    ELSE IF v.t = "digits" THEN Infinity
    ELSE NaN

\* v === undefined
IsUndefined(v) == v.t = "undefined"

\* v < 0 (false for undefined, for a non-numeric text: NaN < 0, and for the
\* text of 400 digits)
LessThanZero(v) == v.t = "number" /\ v.halves < 0

----------------------------------------------------------------------------
(* Schemas *)

ZeroStats ==
    [kdRatio |-> Num(0), damagePerRound |-> Num(0), winPercentage |-> Num(0),
     killsPerRound |-> Num(0), wins |-> 0, kills |-> 0, deaths |-> 0,
     assists |-> 0, totalGames |-> 0, totalRounds |-> 0, totalDamage |-> 0]

\* new User({userId, username, password, isPublic: true}) with schema defaults
\* (the runs sign up with the username equal to the userId and one password,
\* stored as its bcrypt hash)
NewUser(handle) ==
    [userId |-> handle, username |-> handle, password |-> "$2a$10$hash",
     isPublic |-> TRUE,
     kdRatio |-> Num(0), damagePerRound |-> Num(0), winPercentage |-> Num(0),
     killsPerRound |-> Num(0), wins |-> 0, kills |-> 0, deaths |-> 0,
     assists |-> 0, totalGames |-> 0, totalRounds |-> 0, totalDamage |-> 0]

\* the eleven stat fields of a User document
Summary(doc) == [f \in StatFields |-> doc[f]]

\* matchSchema validation of one numeric path: cast to Number (NaN fails),
\* required, min 0
ValidNumberPath(n) ==
    \/ n.kind = "finite" /\ n.hundredths >= 0
    \/ n.kind = "Infinity"

\* the counter value stored for a Number that passed validation
Stored(n) == IF n.kind = "Infinity" THEN InfinityCount ELSE n.hundredths \div 100

\* new Match({...}) followed by validation: the document, or none
NewMatch(id, owner, body) ==
    [_id |-> id, userId |-> owner,
     date |-> body.date, time |-> body.time,
     matchType |-> body.matchType, outcome |-> body.outcome, map |-> body.map,
     roundsWon |-> Stored(parseInt(body.roundsWon)),
     roundsLost |-> Stored(parseInt(body.roundsLost)),
     damage |-> Stored(parseInt(body.damage)),
     kills |-> Stored(parseInt(body.kills)),
     deaths |-> Stored(parseInt(body.deaths)),
     assists |-> Stored(parseInt(body.assists))]

MatchValidates(body) ==
    /\ body.date \in ValidDates
    /\ body.matchType \in MatchTypes
    /\ body.outcome \in Outcomes
    /\ ValidNumberPath(parseInt(body.roundsWon))
    /\ ValidNumberPath(parseInt(body.roundsLost))
    /\ ValidNumberPath(parseInt(body.damage))
    /\ ValidNumberPath(parseInt(body.kills))
    /\ ValidNumberPath(parseInt(body.deaths))
    /\ ValidNumberPath(parseInt(body.assists))

\* matchSchema.virtual('rounds')
rounds(m) == Plus(m.roundsWon, m.roundsLost)

----------------------------------------------------------------------------
(* Stats aggregator *)

\* Match.find({ userId }) on a collection
Find(store, userId) == SelectSeq(store, LAMBDA m : m.userId = userId)

ZeroTotals ==
    [totalKills |-> 0, totalDeaths |-> 0, totalAssists |-> 0,
     totalDamage |-> 0, totalRounds |-> 0, wins |-> 0]

\* forEach that assigns the kills of a match instead of adding them
RECURSIVE ForEachMatch_Assign(_, _, _)
ForEachMatch_Assign(found, i, t) ==
    IF i > Len(found) THEN t
    ELSE ForEachMatch_Assign(found, i + 1,
            [totalKills |-> found[i].kills,
             totalDeaths |-> Plus(t.totalDeaths, found[i].deaths),
             totalAssists |-> Plus(t.totalAssists, found[i].assists),
             totalDamage |-> Plus(t.totalDamage, found[i].damage),
             totalRounds |-> Plus(t.totalRounds,
                                  Plus(found[i].roundsWon, found[i].roundsLost)),
             wins |-> t.wins + (IF found[i].outcome = "Win" THEN 1 ELSE 0)])

\* forEach that counts every outcome but Loss as a win
RECURSIVE ForEachMatch_DrawWins(_, _, _)
ForEachMatch_DrawWins(found, i, t) ==
    IF i > Len(found) THEN t
    ELSE ForEachMatch_DrawWins(found, i + 1,
            [totalKills |-> Plus(t.totalKills, found[i].kills),
             totalDeaths |-> Plus(t.totalDeaths, found[i].deaths),
             totalAssists |-> Plus(t.totalAssists, found[i].assists),
             totalDamage |-> Plus(t.totalDamage, found[i].damage),
             totalRounds |-> Plus(t.totalRounds,
                                  Plus(found[i].roundsWon, found[i].roundsLost)),
             wins |-> t.wins + (IF found[i].outcome # "Loss" THEN 1 ELSE 0)])

\* matches.forEach(match => { ... }) from position i on
RECURSIVE ForEachMatch(_, _, _)
ForEachMatch(found, i, t) ==
    IF i > Len(found) THEN t
    ELSE ForEachMatch(found, i + 1,
            [totalKills |-> Plus(t.totalKills, found[i].kills),
             totalDeaths |-> Plus(t.totalDeaths, found[i].deaths),
             totalAssists |-> Plus(t.totalAssists, found[i].assists),
             totalDamage |-> Plus(t.totalDamage, found[i].damage),
             totalRounds |-> Plus(t.totalRounds,
                                  Plus(found[i].roundsWon, found[i].roundsLost)),
             wins |-> t.wins + (IF found[i].outcome = "Win" THEN 1 ELSE 0)])

\* kdRatio without the test for zero deaths
KdRatio_NoGuard(t) ==
    parseFloat(toFixed(Divide(t.totalKills, t.totalDeaths), 2))

\* const kdRatio = totalDeaths > 0 ? parseFloat((...).toFixed(2)) : totalKills
KdRatio(t) ==
    IF t.totalDeaths > 0
    THEN parseFloat(toFixed(Divide(t.totalKills, t.totalDeaths), 2))
    ELSE Num(t.totalKills)

\* damagePerRound rounded to 2 decimals
DamagePerRound_TwoDecimals(t) ==
    IF t.totalRounds > 0
    THEN parseFloat(toFixed(Divide(t.totalDamage, t.totalRounds), 2))
    ELSE Num(0)

\* damagePerRound without the test for zero rounds
DamagePerRound_NoGuard(t) ==
    parseFloat(toFixed(Divide(t.totalDamage, t.totalRounds), 0))

\* const damagePerRound = totalRounds > 0 ? parseFloat((...).toFixed(0)) : 0
DamagePerRound(t) ==
    IF t.totalRounds > 0
    THEN parseFloat(toFixed(Divide(t.totalDamage, t.totalRounds), 0))
    ELSE Num(0)

\* winPercentage rounded to a whole percent
WinPercentage_Whole(t, totalGames) ==
    parseFloat(toFixed(Times(Divide(t.wins, totalGames), 100), 0))

\* const winPercentage = parseFloat(((wins / totalGames) * 100).toFixed(1))
WinPercentage(t, totalGames) ==
    parseFloat(toFixed(Times(Divide(t.wins, totalGames), 100), 1))

\* killsPerRound rounded to 1 decimal
KillsPerRound_OneDecimal(t) ==
    IF t.totalRounds > 0
    THEN parseFloat(toFixed(Divide(t.totalKills, t.totalRounds), 1))
    ELSE Num(0)

\* const killsPerRound = totalRounds > 0 ? parseFloat((...).toFixed(2)) : 0
KillsPerRound(t) ==
    IF t.totalRounds > 0
    THEN parseFloat(toFixed(Divide(t.totalKills, t.totalRounds), 2))
    ELSE Num(0)

\* the object returned for a non-empty result of Match.find
BuildStats(t, totalGames) ==
    [kdRatio |-> KdRatio(t),
     damagePerRound |-> DamagePerRound(t),
     winPercentage |-> WinPercentage(t, totalGames),
     killsPerRound |-> KillsPerRound(t),
     wins |-> t.wins,
     kills |-> t.totalKills,
     deaths |-> t.totalDeaths,
     assists |-> t.totalAssists,
     totalGames |-> totalGames,
     totalRounds |-> t.totalRounds,
     totalDamage |-> t.totalDamage]

\* the summary without the branch for an empty result
StatsOf_NoEmptyCheck(found) ==
    BuildStats(ForEachMatch(found, 1, ZeroTotals), Len(found))

\* the summary built from the documents Match.find returned
StatsOf(found) ==
    IF Len(found) = 0 THEN ZeroStats
    ELSE BuildStats(ForEachMatch(found, 1, ZeroTotals), Len(found))

Thrown == [thrown |-> TRUE]
IsThrown(x) == "thrown" \in DOMAIN x

\* calculateUserStats whose catch block returns the defaults
calculateUserStats_Swallow(store, userId, findRejects) ==
    IF findRejects THEN ZeroStats ELSE StatsOf(Find(store, userId))

\* calculateUserStats(userId) against the collection `store`; findRejects:
\* Match.find rejects, the catch block logs and rethrows
calculateUserStats(store, userId, findRejects) ==
    IF findRejects THEN Thrown ELSE StatsOf(Find(store, userId))

----------------------------------------------------------------------------
(* Collection operations *)

\* findByIdAndUpdate that adds the counters of update to the stored ones
FindByIdAndUpdate_Inc(coll, id, update) ==
    IF id \in DOMAIN coll
    THEN [coll EXCEPT ![id] =
            [f \in DOMAIN coll[id] |->
                IF f \in DOMAIN update \cap CountFields
                THEN coll[id][f] + update[f]
                ELSE IF f \in DOMAIN update THEN update[f] ELSE coll[id][f]]]
    ELSE coll

\* an updateMany: sets the fields of update on every stored document
FindByIdAndUpdate_Many(coll, id, update) ==
    [u \in DOMAIN coll |->
        [f \in DOMAIN coll[u] |->
            IF f \in DOMAIN update THEN update[f] ELSE coll[u][f]]]

\* User.findByIdAndUpdate(id, update): sets the fields of update on the
\* document with that _id; no document, no change
FindByIdAndUpdate(coll, id, update) ==
    IF id \in DOMAIN coll
    THEN [coll EXCEPT ![id] =
            [f \in DOMAIN coll[id] |->
                IF f \in DOMAIN update THEN update[f] ELSE coll[id][f]]]
    ELSE coll

\* a soft delete: the documents of the owner stay, detached from the account
DeleteMany_Detach(store, userId) ==
    [i \in 1..Len(store) |->
        IF store[i].userId = userId
        THEN [store[i] EXCEPT !.userId = "deleted"]
        ELSE store[i]]

\* deleteOne in place of deleteMany: only the first document of the owner goes
DeleteMany_One(store, userId) ==
    LET hit == {i \in 1..Len(store) : store[i].userId = userId}
    IN  IF hit = {} THEN store
        ELSE LET first == CHOOSE i \in hit : \A j \in hit : i <= j
             IN  SubSeq(store, 1, first - 1) \o SubSeq(store, first + 1, Len(store))

\* casting an update for the User schema fails: a Number path given NaN
CastFails(update) == \E f \in RatioFields : update[f] = NaN

\* Match.deleteMany({ userId })
DeleteMany(store, userId) == SelectSeq(store, LAMBDA m : m.userId # userId)

\* a filter on _id alone
Matching_AnyOwner(store, id, userId) ==
    {i \in 1..Len(store) : store[i]._id = id}

\* the document Match.findOneAndDelete({ _id, userId }) matches, if any
Matching(store, id, userId) ==
    {i \in 1..Len(store) : store[i]._id = id /\ store[i].userId = userId}

\* the collection without the document Match.findOneAndDelete matched
DeleteOne(store, id, userId) ==
    LET hit == Matching(store, id, userId)
    IN  SelectSeq(store, LAMBDA m : \A i \in hit : store[i] # m)

\* User.findByIdAndDelete(id)
FindByIdAndDelete(coll, id) == [u \in DOMAIN coll \ {id} |-> coll[u]]

Null == [null |-> TRUE]
\* a request of account id; matchId is 0 on the routes without :id
Request(id, matchId) == [id |-> id, matchId |-> matchId]
Response(status, message, stats) ==
    [status |-> status, message |-> message, stats |-> stats]

\* no handler runs on the connection
Idle == [await |-> "none"]
\* a handler of account id suspended before the database call `await`
Call(await, id, matchId, updatedStats) ==
    [await |-> await, id |-> id, matchId |-> matchId,
     updatedStats |-> updatedStats]

\* localStorage without the two items of the App
NoItems == [token |-> Null, user |-> Null]

\* the App component as constructed (useState(false), useState(null),
\* useState(true)) in a browser with the given localStorage at a location,
\* showing the spinner
Mounted(storage, location) ==
    [isAuthenticated |-> FALSE, user |-> Null, loading |-> TRUE,
     localStorage |-> storage, location |-> location, page |-> "Loading"]

\* a browser that opens the site for the first time
FirstVisit == Mounted(NoItems, "/")

----------------------------------------------------------------------------
(* Requests *)

\* numeric fields of a body: <<kills, deaths, assists>>, <<won, lost, damage>>
Combats == {<<5, 0, 1>>, <<0, 3, 2>>, <<0, 0, 0>>}
RoundSets == {<<0, 0, 1>>, <<2, 1, 4>>}

Body(c, r, outcome) ==
    [date |-> "2024-05-01", time |-> "18:30", matchType |-> "Ranked",
     outcome |-> outcome, map |-> "Ascent",
     roundsWon |-> JsNumber(2 * r[1]), roundsLost |-> JsNumber(2 * r[2]),
     damage |-> JsNumber(2 * r[3]),
     kills |-> JsNumber(2 * c[1]), deaths |-> JsNumber(2 * c[2]),
     assists |-> JsNumber(2 * c[3])]

\* the bodies of the aggregation runs
GridBodies == {Body(c, r, o) : c \in Combats, r \in RoundSets, o \in Outcomes}

Sample == Body(<<5, 0, 1>>, <<2, 1, 4>>, "Win")

\* bodies with one field missing, negative, fractional or of the wrong kind
OddBodies ==
    {[Sample EXCEPT !.date = ""],
     [Sample EXCEPT !.date = "someday"],
     [Sample EXCEPT !.kills = Undefined],
     [Sample EXCEPT !.kills = JsText],
     [Sample EXCEPT !.roundsWon = JsNumber(-2)],
     [Sample EXCEPT !.damage = JsNumber(-2)],
     [Sample EXCEPT !.deaths = JsNumber(1)],
     [Sample EXCEPT !.outcome = "Forfeit"]}

\* the bodies of the request runs
Bodies == {Sample, Body(<<0, 3, 2>>, <<0, 0, 1>>, "Draw")} \cup OddBodies

Init ==
    /\ users = <<>>
    /\ tokens = {}
    /\ matches = <<>>
    /\ nextMatchId = 1
    /\ fault = "none"
    /\ req = Request("", 0)
    /\ res = Response(0, "", Null)
    /\ calls = [c \in Connections |-> Idle]
    /\ app = FirstVisit

\* POST /api/signup
Signup(handle, f) ==
    /\ Cardinality(tokens) < Len(UserIdSeq)
    /\ UNCHANGED <<matches, nextMatchId, calls>>
    /\ req' = Request("", 0)
    /\ IF handle = ""
       THEN /\ res' = Response(400, "User ID, username, and password are required", Null)
            /\ fault' = "none"
            /\ UNCHANGED <<users, tokens>>
       ELSE IF f = "findOne"
       THEN /\ res' = Response(500, "Server error during signup", Null)
            /\ fault' = "findOne"
            /\ UNCHANGED <<users, tokens>>
       ELSE IF \E u \in DOMAIN users : users[u].userId = handle
       THEN /\ res' = Response(409, "User ID already exists", Null)
            /\ fault' = "none"
            /\ UNCHANGED <<users, tokens>>
       ELSE IF f = "save"
       THEN /\ res' = Response(500, "Server error during signup", Null)
            /\ fault' = "save"
            /\ UNCHANGED <<users, tokens>>
       ELSE LET id == UserIdSeq[Cardinality(tokens) + 1]
            IN  /\ users' = [u \in DOMAIN users \cup {id} |->
                                IF u = id THEN NewUser(handle) ELSE users[u]]
                /\ tokens' = tokens \cup {id}
                /\ res' = Response(201, "Account created successfully!", ZeroStats)
                /\ fault' = "none"

\* the required-fields test of add-match
MissingField(body) ==
    \/ body.date = "" \/ body.time = "" \/ body.matchType = ""
    \/ body.outcome = "" \/ body.map = ""
    \/ IsUndefined(body.roundsWon) \/ IsUndefined(body.roundsLost)
    \/ IsUndefined(body.damage) \/ IsUndefined(body.kills)
    \/ IsUndefined(body.deaths) \/ IsUndefined(body.assists)

\* POST /api/user/me/matches with the token of account id; saved is the
\* collection after match.save(), updatedStats the handler's const
AddMatch(id, body, f) ==
    /\ id \in tokens
    /\ UNCHANGED <<tokens, calls, app>>
    /\ req' = Request(id, 0)
    /\ IF MissingField(body)
       THEN /\ res' = Response(400, "All fields are required", Null)
            /\ fault' = "none"
            /\ UNCHANGED <<users, matches, nextMatchId>>
       ELSE IF LessThanZero(body.roundsWon) \/ LessThanZero(body.roundsLost)
       THEN /\ res' = Response(400, "Rounds won and lost cannot be negative", Null)
            /\ fault' = "none"
            /\ UNCHANGED <<users, matches, nextMatchId>>
       ELSE IF ~MatchValidates(body) \/ f = "save"
       THEN /\ res' = Response(500, "Error adding match", Null)
            /\ fault' = "save"
            /\ UNCHANGED <<users, matches, nextMatchId>>
       ELSE \E saved \in {Append(matches, NewMatch(nextMatchId, id, body))} :
            \E updatedStats \in {calculateUserStats(saved, id, f = "find")} :
                /\ matches' = saved
                /\ nextMatchId' = nextMatchId + 1
                /\ fault' = (IF f \in {"find", "update"} THEN f
                             ELSE IF CastFails(updatedStats) THEN "update"
                             ELSE "none")
                /\ IF \/ IsThrown(updatedStats)
                      \/ f = "update"
                      \/ CastFails(updatedStats)
                   THEN /\ res' = Response(500, "Error adding match", Null)
                        /\ UNCHANGED users
                   ELSE /\ users' = FindByIdAndUpdate(users, id, updatedStats)
                        /\ res' = Response(201, "Match added successfully!",
                                           updatedStats)

\* DELETE /api/user/me/matches/:id with the token of account id
DeleteMatch(id, matchId, f) ==
    /\ id \in tokens
    /\ UNCHANGED <<tokens, nextMatchId, calls, app>>
    /\ req' = Request(id, matchId)
    /\ IF f = "delete"
       THEN /\ res' = Response(500, "Error deleting match", Null)
            /\ fault' = "delete"
            /\ UNCHANGED <<users, matches>>
       ELSE IF Matching(matches, matchId, id) = {}
       THEN /\ res' = Response(404, "Match not found", Null)
            /\ fault' = "none"
            /\ UNCHANGED <<users, matches>>
       ELSE \E removed \in {DeleteOne(matches, matchId, id)} :
            \E updatedStats \in {calculateUserStats(removed, id, f = "find")} :
                /\ matches' = removed
                /\ fault' = (IF f \in {"find", "update"} THEN f
                             ELSE IF CastFails(updatedStats) THEN "update"
                             ELSE "none")
                /\ IF \/ IsThrown(updatedStats)
                      \/ f = "update"
                      \/ CastFails(updatedStats)
                   THEN /\ res' = Response(500, "Error deleting match", Null)
                        /\ UNCHANGED users
                   ELSE /\ users' = FindByIdAndUpdate(users, id, updatedStats)
                        /\ res' = Response(200, "Match deleted successfully!",
                                           updatedStats)

\* DELETE /api/user/me/stats with the token of account id
ResetStats(id, f) ==
    /\ id \in tokens
    /\ UNCHANGED <<tokens, nextMatchId, calls, app>>
    /\ req' = Request(id, 0)
    /\ IF f = "findById"
       THEN /\ res' = Response(500, "Error resetting stats", Null)
            /\ fault' = "findById"
            /\ UNCHANGED <<users, matches>>
       ELSE IF id \notin DOMAIN users
       THEN /\ res' = Response(404, "User not found", Null)
            /\ fault' = "none"
            /\ UNCHANGED <<users, matches>>
       ELSE IF f = "deleteMany"
       THEN /\ res' = Response(500, "Error resetting stats", Null)
            /\ fault' = "deleteMany"
            /\ UNCHANGED <<users, matches>>
       ELSE /\ matches' = DeleteMany(matches, id)
            /\ IF f = "save"
               THEN /\ res' = Response(500, "Error resetting stats", Null)
                    /\ fault' = "save"
                    /\ UNCHANGED users
               ELSE /\ users' = FindByIdAndUpdate(users, id, ZeroStats)
                    /\ res' = Response(200, "All stats reset successfully!",
                                       ZeroStats)
                    /\ fault' = "none"

\* DELETE /api/user/me with the token of account id
DeleteAccount(id, f) ==
    /\ id \in tokens
    /\ UNCHANGED <<tokens, nextMatchId, calls>>
    /\ req' = Request(id, 0)
    /\ IF f = "findById"
       THEN /\ res' = Response(500, "Error deleting account", Null)
            /\ fault' = "findById"
            /\ UNCHANGED <<users, matches>>
       ELSE IF id \notin DOMAIN users
       THEN /\ res' = Response(404, "User not found", Null)
            /\ fault' = "none"
            /\ UNCHANGED <<users, matches>>
       ELSE IF f = "deleteMany"
       THEN /\ res' = Response(500, "Error deleting account", Null)
            /\ fault' = "deleteMany"
            /\ UNCHANGED <<users, matches>>
       ELSE /\ matches' = DeleteMany(matches, id)
            /\ IF f = "delete"
               THEN /\ res' = Response(500, "Error deleting account", Null)
                    /\ fault' = "delete"
                    /\ UNCHANGED users
               ELSE /\ users' = FindByIdAndDelete(users, id)
                    /\ res' = Response(200, "Account deleted successfully!", Null)
                    /\ fault' = "none"

\* the database calls of each route that may reject
SignupFaults == {"none", "findOne", "save"}
MatchFaults == {"none", "save", "find", "update"}
DeleteFaults == {"none", "delete", "find", "update"}
ResetFaults == {"none", "findById", "deleteMany", "save"}
AccountFaults == {"none", "findById", "deleteMany", "delete"}

\* the body gets as far as the first database call, match.save()
ReachesSave(body) ==
    /\ ~MissingField(body)
    /\ ~(LessThanZero(body.roundsWon) \/ LessThanZero(body.roundsLost))
    /\ MatchValidates(body)

\* add-match while the run has Match ids left; a database call rejects only
\* in a request that gets to it
AddMatchRequest(id, body, f) ==
    /\ nextMatchId <= MaxAdds
    /\ f # "none" => ReachesSave(body)
    /\ AddMatch(id, body, f)

\* the routes that browsers call in other runs as well, called directly
SignupRequest(handle, f) == Signup(handle, f) /\ UNCHANGED app
DeleteAccountRequest(id, f) == DeleteAccount(id, f) /\ UNCHANGED app

Next ==
    \/ \E h \in Handles \cup {""}, f \in SignupFaults : SignupRequest(h, f)
    \/ \E id \in UserIds, b \in Bodies, f \in MatchFaults :
          AddMatchRequest(id, b, f)
    \/ \E id \in UserIds, m \in 1..MaxAdds, f \in DeleteFaults :
          DeleteMatch(id, m, f)
    \/ \E id \in UserIds, f \in ResetFaults : ResetStats(id, f)
    \/ \E id \in UserIds, f \in AccountFaults : DeleteAccountRequest(id, f)

Spec == Init /\ [][Next]_vars

----------------------------------------------------------------------------
(* Aggregation runs: one signed-up account adds and deletes matches drawn   *)
(* from the grid, no database call rejects.                                 *)

AggInit ==
    /\ users = [u \in {"u1"} |-> NewUser("nolu")]
    /\ tokens = {"u1"}
    /\ matches = <<>>
    /\ nextMatchId = 1
    /\ fault = "none"
    /\ req = Request("", 0)
    /\ res = Response(201, "Account created successfully!", ZeroStats)
    /\ calls = [c \in Connections |-> Idle]
    /\ app = FirstVisit

AggAddMatch(body) ==
    /\ nextMatchId <= MaxMatches
    /\ AddMatch("u1", body, "none")

AggDeleteMatch(matchId) == DeleteMatch("u1", matchId, "none")

AggNext ==
    \/ \E b \in GridBodies : AggAddMatch(b)
    \/ \E m \in 1..MaxMatches : AggDeleteMatch(m)

AggSpec == AggInit /\ [][AggNext]_vars

----------------------------------------------------------------------------
(* Worked example: account u1 adds and deletes its two records and a     *)
(* drawn match, no database call rejects.                                  *)

ExampleWin == Body(<<15, 10, 5>>, <<7, 6, 3200>>, "Win")
ExampleLoss == Body(<<8, 12, 3>>, <<5, 7, 2400>>, "Loss")
ExampleDraw == Body(<<0, 3, 2>>, <<0, 0, 1>>, "Draw")
ExampleBodies == {ExampleWin, ExampleLoss, ExampleDraw}

ExampleAddMatch(body) ==
    /\ nextMatchId <= MaxMatches
    /\ AddMatch("u1", body, "none")

ExampleNext ==
    \/ \E body \in ExampleBodies : ExampleAddMatch(body)
    \/ \E matchId \in 1..MaxMatches : AggDeleteMatch(matchId)

ExampleSpec == AggInit /\ [][ExampleNext]_vars

----------------------------------------------------------------------------
(* Record-creation boundary: account u1 posts bodies with a field absent,  *)
(* negative, fractional, of the wrong kind or beyond the range of Number,  *)
(* and deletes matches; no database call rejects.                          *)

TextFields == {"date", "time", "matchType", "outcome", "map"}
NumberFields == {"roundsWon", "roundsLost", "damage", "kills", "deaths", "assists"}

\* Sample without one of its fields
AbsentBodies ==
    {[Sample EXCEPT ![k] = ""] : k \in TextFields}
       \cup {[Sample EXCEPT ![k] = Undefined] : k \in NumberFields}

\* Sample with -1 or -0.5 in one numeric field
NegativeBodies ==
    {[Sample EXCEPT ![k] = JsNumber(h)] : k \in NumberFields, h \in {-2, -1}}

\* Sample with the text of 400 digits as kills, and as kills and deaths
HugeBodies ==
    {[Sample EXCEPT !.kills = JsDigits],
     [Sample EXCEPT !.kills = JsDigits, !.deaths = JsDigits]}

BoundaryBodies ==
    {Sample, ExampleDraw} \cup OddBodies \cup AbsentBodies
       \cup NegativeBodies \cup HugeBodies

BoundaryAddMatch(body) ==
    /\ nextMatchId <= MaxMatches
    /\ AddMatch("u1", body, "none")

BoundaryNext ==
    \/ \E body \in BoundaryBodies : BoundaryAddMatch(body)
    \/ \E matchId \in 1..MaxMatches : AggDeleteMatch(matchId)

BoundarySpec == AggInit /\ [][BoundaryNext]_vars

----------------------------------------------------------------------------
(* Awaits: add-match and delete-match of account u1 as the sequence of     *)
(* their awaited database calls.  A handler runs on a connection; each     *)
(* step is one database call together with the handler code up to the     *)
(* next await, and the steps of two connections interleave.  No call       *)
(* rejects and every body passes validation.                               *)

AwaitBodies == {Sample, ExampleDraw}

\* add-match up to the completion of await match.save()
SaveMatch(c, id, body) ==
    /\ calls[c] = Idle
    /\ UNCHANGED app
    /\ id \in tokens
    /\ nextMatchId <= MaxAdds
    /\ ReachesSave(body)
    /\ matches' = Append(matches, NewMatch(nextMatchId, id, body))
    /\ nextMatchId' = nextMatchId + 1
    /\ calls' = [calls EXCEPT ![c] = Call("find", id, 0, Null)]
    /\ UNCHANGED <<users, tokens, fault, req, res>>

\* delete-match up to the completion of await Match.findOneAndDelete(...)
FindOneAndDelete(c, id, matchId) ==
    /\ calls[c] = Idle
    /\ UNCHANGED app
    /\ id \in tokens
    /\ IF Matching(matches, matchId, id) = {}
       THEN /\ calls' = [calls EXCEPT ![c] = Call("respond", id, matchId, Null)]
            /\ UNCHANGED matches
       ELSE /\ matches' = DeleteOne(matches, matchId, id)
            /\ calls' = [calls EXCEPT ![c] = Call("find", id, matchId, Null)]
    /\ UNCHANGED <<users, tokens, nextMatchId, fault, req, res>>

\* calculateUserStats with its own writes, if it had any: a summary write
CalculateUserStats_Persist(c) ==
    /\ calls[c].await = "find"
    /\ UNCHANGED app
    /\ LET updatedStats == calculateUserStats(matches, calls[c].id, FALSE)
       IN  /\ calls' = [calls EXCEPT ![c].await = "update",
                                     ![c].updatedStats = updatedStats]
           /\ users' = FindByIdAndUpdate(users, calls[c].id, updatedStats)
    /\ UNCHANGED <<tokens, matches, nextMatchId, fault, req, res>>

\* const updatedStats = await calculateUserStats(req.user.id)
CalculateUserStats(c) ==
    /\ calls[c].await = "find"
    /\ UNCHANGED app
    /\ calls' = [calls EXCEPT
                    ![c].await = "update",
                    ![c].updatedStats =
                        calculateUserStats(matches, calls[c].id, FALSE)]
    /\ UNCHANGED <<users, tokens, matches, nextMatchId, fault, req, res>>

\* await User.findByIdAndUpdate(req.user.id, updatedStats)
UpdateUser(c) ==
    /\ calls[c].await = "update"
    /\ UNCHANGED app
    /\ users' = FindByIdAndUpdate(users, calls[c].id, calls[c].updatedStats)
    /\ calls' = [calls EXCEPT ![c].await = "respond"]
    /\ UNCHANGED <<tokens, matches, nextMatchId, fault, req, res>>

\* res.status(...).json(...) of add-match and delete-match
Respond(c) ==
    /\ calls[c].await = "respond"
    /\ UNCHANGED app
    /\ req' = Request(calls[c].id, calls[c].matchId)
    /\ res' = IF calls[c].updatedStats = Null
              THEN Response(404, "Match not found", Null)
              ELSE IF calls[c].matchId = 0
              THEN Response(201, "Match added successfully!",
                            calls[c].updatedStats)
              ELSE Response(200, "Match deleted successfully!",
                            calls[c].updatedStats)
    /\ calls' = [calls EXCEPT ![c] = Idle]
    /\ UNCHANGED <<users, tokens, matches, nextMatchId, fault>>

AwaitNext ==
    \/ \E c \in Connections, b \in AwaitBodies : SaveMatch(c, "u1", b)
    \/ \E c \in Connections, m \in 1..MaxAdds : FindOneAndDelete(c, "u1", m)
    \/ \E c \in Connections : CalculateUserStats(c)
    \/ \E c \in Connections : UpdateUser(c)
    \/ \E c \in Connections : Respond(c)

AwaitSpec == AggInit /\ [][AwaitNext]_vars

----------------------------------------------------------------------------
(* Access: the authentication middleware in front of the protected routes, *)
(* the privacy setting and the two public read routes, for two signed-up   *)
(* accounts.  No database call rejects and every body passes validation.   *)

\* a JSON Web Token naming account id: signed with JWT_SECRET or with
\* another key, past its 24 hours or not
Jwt(id, signed, expired) == [id |-> id, signed |-> signed, expired |-> expired]

\* req.headers['authorization'] as authHeader.split(' '): no header, the
\* scheme alone, the scheme and a token
NoHeader == <<>>
Bearer(token) == <<"Bearer", token>>
Headers ==
    {NoHeader, <<"Bearer">>}
        \cup {Bearer(Jwt(id, TRUE, FALSE)) : id \in UserIds}
        \cup {Bearer(Jwt("u1", FALSE, FALSE)), Bearer(Jwt("u2", TRUE, TRUE))}

\* jwt.verify(token, JWT_SECRET) calls back without err
Verify(token) == token.signed /\ ~token.expired

\* a middleware that decodes the token without verifying it
authenticateToken_Decode(header) ==
    IF Len(header) < 2
    THEN [next |-> FALSE, res |-> Response(401, "Access token required", Null)]
    ELSE [next |-> TRUE, user |-> header[2]]

\* authenticateToken: the response it sends, or next() with req.user
authenticateToken(header) ==
    IF Len(header) < 2
    THEN [next |-> FALSE, res |-> Response(401, "Access token required", Null)]
    ELSE IF ~Verify(header[2])
    THEN [next |-> FALSE,
          res |-> Response(403, "Invalid or expired token", Null)]
    ELSE [next |-> TRUE, user |-> header[2]]

ProtectedRoutes ==
    {"GET /api/user/me/stats", "GET /api/user/me/matches",
     "POST /api/user/me/matches", "PUT /api/user/me/privacy",
     "DELETE /api/user/me/matches/:id", "DELETE /api/user/me/stats",
     "DELETE /api/user/me"}

\* a request to a protected route that the middleware answered
Unauthenticated(route, header) ==
    [id |-> "", matchId |-> 0, route |-> route, authorization |-> header]
\* a request to a public route with its parameter
Public(route, param) ==
    [id |-> "", matchId |-> 0, route |-> route, param |-> param]

\* the middleware answers and the route handler is not called
Deny(route, header) ==
    /\ ~authenticateToken(header).next
    /\ res' = authenticateToken(header).res
    /\ req' = Unauthenticated(route, header)
    /\ fault' = "none"
    /\ UNCHANGED <<users, tokens, matches, nextMatchId, calls, app>>

\* the middleware calls next() with req.user.id = id
Admit(header, id) ==
    /\ authenticateToken(header).next
    /\ id = authenticateToken(header).user.id

\* the results of a descending sort of ids on two keys, key[id] being the
\* pair of them: the sequences of all of ids in which no element has a
\* smaller pair than a later one
Orderings(ids, key) ==
    {s \in [1..Cardinality(ids) -> ids] :
        \A i, j \in DOMAIN s :
            i < j => /\ s[i] # s[j]
                     /\ key[s[i]][1] >= key[s[j]][1]
                     /\ key[s[i]][1] = key[s[j]][1]
                           => key[s[i]][2] >= key[s[j]][2]}

\* .limit(n)
Limit(s, n) == SubSeq(s, 1, IF Len(s) < n THEN Len(s) ELSE n)

\* the Date a text casts to, in days
DateOf(text) == CASE text = "2024-05-01" -> 19844 [] OTHER -> 0

\* toJSON of a Match document: its paths and the virtual rounds
MatchJson(m) ==
    [f \in (DOMAIN m) \cup {"rounds"} |-> IF f = "rounds" THEN rounds(m) ELSE m[f]]

\* GET /api/user/me/stats handler
GetStats(id) ==
    /\ id \in tokens
    /\ req' = Request(id, 0)
    /\ fault' = "none"
    /\ UNCHANGED <<users, tokens, matches, nextMatchId, calls, app>>
    /\ res' = IF id \notin DOMAIN users
              THEN Response(404, "User not found", Null)
              ELSE Response(200, "",
                            [stats |-> Summary(users[id]),
                             settings |-> [isPublic |-> users[id].isPublic],
                             user |-> [userId |-> users[id].userId,
                                       username |-> users[id].username]])

\* GET /api/user/me/matches handler: newest date first, then newest
\* createdAt first (a later insertion has a later createdAt), at most 100
GetMatches(id) ==
    /\ id \in tokens
    /\ req' = Request(id, 0)
    /\ fault' = "none"
    /\ UNCHANGED <<users, tokens, matches, nextMatchId, calls, app>>
    /\ \E order \in Orderings({i \in 1..Len(matches) : matches[i].userId = id},
                              [i \in 1..Len(matches) |->
                                  <<DateOf(matches[i].date), i>>]) :
          res' = Response(200, "",
                          [matches |-> [k \in DOMAIN Limit(order, 100) |->
                                           MatchJson(matches[order[k]])]])

\* a request-body value of type boolean
JsBoolean(b) == [t |-> "boolean", b |-> b]

\* PUT /api/user/me/privacy handler
UpdatePrivacy(id, isPublic) ==
    /\ id \in tokens
    /\ req' = Request(id, 0)
    /\ fault' = "none"
    /\ UNCHANGED <<tokens, matches, nextMatchId, calls, app>>
    /\ IF isPublic.t # "boolean"
       THEN /\ res' = Response(400, "isPublic must be true or false", Null)
            /\ UNCHANGED users
       ELSE IF id \notin DOMAIN users
       THEN /\ res' = Response(404, "User not found", Null)
            /\ UNCHANGED users
       ELSE /\ users' = [users EXCEPT ![id].isPublic = isPublic.b]
            /\ res' = Response(200,
                               IF isPublic.b THEN "Profile is now public"
                               ELSE "Profile is now private",
                               [isPublic |-> isPublic.b])

\* the characters of a userId or username
Chars(text) ==
    CASE text = "nolu" -> <<"n", "o", "l", "u">>
      [] text = "p2" -> <<"p", "2">>
      [] OTHER -> <<>>

\* the case folding of the regex option i
Fold(c) ==
    CASE c = "N" -> "n" [] c = "O" -> "o" [] c = "L" -> "l" [] c = "U" -> "u"
      [] c = "P" -> "p" [] OTHER -> c

\* query.trim()
RECURSIVE Trim(_)
Trim(q) ==
    IF q # <<>> /\ Head(q) = " " THEN Trim(Tail(q))
    ELSE IF q # <<>> /\ q[Len(q)] = " " THEN Trim(SubSeq(q, 1, Len(q) - 1))
    ELSE q

\* { $regex: q, $options: 'i' } on a text: q occurs in it, case folded
RegexTest(q, text) ==
    \E at \in 0..(Len(text) - Len(q)) :
        \A k \in 1..Len(q) : Fold(text[at + k]) = Fold(q[k])

\* a filter without the isPublic condition
Players_AnyProfile(coll, q) ==
    {u \in DOMAIN coll :
        \/ RegexTest(q, Chars(coll[u].userId))
        \/ RegexTest(q, Chars(coll[u].username))}

\* the documents User.find({$and: [{isPublic: true}, {$or: [...]}]}) matches
Players(coll, q) ==
    {u \in DOMAIN coll :
        /\ coll[u].isPublic
        /\ \/ RegexTest(q, Chars(coll[u].userId))
           \/ RegexTest(q, Chars(coll[u].username))}

\* one element of players in the search response
Player(doc) ==
    [userId |-> doc.userId, username |-> doc.username,
     stats |-> [kdRatio |-> doc.kdRatio, winPercentage |-> doc.winPercentage,
                totalGames |-> doc.totalGames, wins |-> doc.wins,
                kills |-> doc.kills, deaths |-> doc.deaths]]

\* GET /api/search/players?query=...: most games first, at most 10 (the
\* default limit); documents with equal totalGames come in either order
SearchPlayers(query) ==
    /\ req' = Public("GET /api/search/players", query)
    /\ fault' = "none"
    /\ UNCHANGED <<users, tokens, matches, nextMatchId, calls, app>>
    /\ IF Len(Trim(query)) < 2
       THEN res' = Response(400,
                            "Search query must be at least 2 characters long",
                            Null)
       ELSE \E order \in Orderings(Players(users, Trim(query)),
                                   [u \in DOMAIN users |->
                                       <<users[u].totalGames, 0>>]) :
               res' = Response(200, "",
                               [count |-> Len(Limit(order, 10)),
                                players |-> [k \in DOMAIN Limit(order, 10) |->
                                                Player(users[order[k]])]])

\* .select('date outcome map kills deaths assists damage roundsWon
\* roundsLost') of a Match document as JSON: those paths, _id and the virtual
Selected(m) ==
    [f \in {"_id", "date", "outcome", "map", "kills", "deaths", "assists",
            "damage", "roundsWon", "roundsLost", "rounds"} |-> MatchJson(m)[f]]

\* GET /api/user/:userId: the five matches of newest date, matches of one
\* date in any order
GetPlayer(userId) ==
    /\ req' = Public("GET /api/user/:userId", userId)
    /\ fault' = "none"
    /\ UNCHANGED <<users, tokens, matches, nextMatchId, calls, app>>
    /\ IF ~\E u \in DOMAIN users : users[u].userId = userId
       THEN res' = Response(404, "Player not found", Null)
       ELSE \E u \in {v \in DOMAIN users : users[v].userId = userId} :
            IF ~users[u].isPublic
            THEN res' = Response(403, "This player profile is private", Null)
            ELSE \E order \in Orderings(
                                {i \in 1..Len(matches) : matches[i].userId = u},
                                [i \in 1..Len(matches) |->
                                    <<DateOf(matches[i].date), 0>>]) :
                    res' = Response(200, "",
                              [userId |-> users[u].userId,
                               username |-> users[u].username,
                               stats |-> Summary(users[u]),
                               recentMatches |->
                                   [k \in DOMAIN Limit(order, 5) |->
                                       Selected(matches[order[k]])]])

\* the palettes of the access runs
PrivacyBodies == {JsBoolean(TRUE), JsBoolean(FALSE), JsText, Undefined}
Queries ==
    {<<>>, <<" ", "n", " ">>, <<"N", "O">>, <<"p", "2">>, <<"z", "z">>}
ProfileIds == Handles \cup {"nobody"}

AccessInit ==
    /\ users = [u \in UserIds |-> NewUser(IF u = "u1" THEN "nolu" ELSE "p2")]
    /\ tokens = UserIds
    /\ matches = <<>>
    /\ nextMatchId = 1
    /\ fault = "none"
    /\ req = Request("", 0)
    /\ res = Response(201, "Account created successfully!", ZeroStats)
    /\ calls = [c \in Connections |-> Idle]
    /\ app = FirstVisit

AccessGetStats(header) ==
    \/ Deny("GET /api/user/me/stats", header)
    \/ \E id \in UserIds : Admit(header, id) /\ GetStats(id)

AccessGetMatches(header) ==
    \/ Deny("GET /api/user/me/matches", header)
    \/ \E id \in UserIds : Admit(header, id) /\ GetMatches(id)

AccessAddMatch(header, body) ==
    \/ Deny("POST /api/user/me/matches", header)
    \/ \E id \in UserIds :
          Admit(header, id) /\ nextMatchId <= MaxAdds /\ AddMatch(id, body, "none")

AccessUpdatePrivacy(header, isPublic) ==
    \/ Deny("PUT /api/user/me/privacy", header)
    \/ \E id \in UserIds : Admit(header, id) /\ UpdatePrivacy(id, isPublic)

AccessDeleteMatch(header, matchId) ==
    \/ Deny("DELETE /api/user/me/matches/:id", header)
    \/ \E id \in UserIds : Admit(header, id) /\ DeleteMatch(id, matchId, "none")

AccessResetStats(header) ==
    \/ Deny("DELETE /api/user/me/stats", header)
    \/ \E id \in UserIds : Admit(header, id) /\ ResetStats(id, "none")

AccessDeleteAccount(header) ==
    \/ Deny("DELETE /api/user/me", header)
    \/ \E id \in UserIds : Admit(header, id) /\ DeleteAccountRequest(id, "none")

AccessNext ==
    \/ \E h \in Headers : AccessGetStats(h)
    \/ \E h \in Headers : AccessGetMatches(h)
    \/ \E h \in Headers : AccessAddMatch(h, Sample)
    \/ \E h \in Headers, v \in PrivacyBodies : AccessUpdatePrivacy(h, v)
    \/ \E h \in Headers, m \in 1..MaxAdds : AccessDeleteMatch(h, m)
    \/ \E h \in Headers : AccessResetStats(h)
    \/ \E h \in Headers : AccessDeleteAccount(h)
    \/ \E q \in Queries : SearchPlayers(q)
    \/ \E p \in ProfileIds : GetPlayer(p)

AccessSpec == AccessInit /\ [][AccessNext]_vars

----------------------------------------------------------------------------
(* Browser: the App component of one browser against the server.  The     *)
(* user opens and reloads pages, follows links, signs up, logs in, logs    *)
(* out and deletes the account; each event handler runs to its end and    *)
(* the page is rendered once after it.  Forms pass their client-side       *)
(* checks and dialogs are confirmed.                                       *)

Passwords == {"hunter22", "letmein"}

\* bcrypt.compare(password, hash) for the hash the runs store
Compare(password, hash) == password = "hunter22" /\ hash = "$2a$10$hash"

\* the user object of the signup and login responses
UserJson(doc) ==
    [userId |-> doc.userId, username |-> doc.username,
     isPublic |-> doc.isPublic, stats |-> Summary(doc)]

\* POST /api/login
Login(handle, password, f) ==
    /\ req' = Request("", 0)
    /\ UNCHANGED <<users, tokens, matches, nextMatchId, calls>>
    /\ IF handle = "" \/ password = ""
       THEN /\ res' = Response(400, "User ID and password are required", Null)
            /\ fault' = "none"
       ELSE IF f = "findOne"
       THEN /\ res' = Response(500, "Server error during login", Null)
            /\ fault' = "findOne"
       ELSE IF ~\E u \in DOMAIN users : users[u].userId = handle
       THEN /\ res' = Response(401, "Invalid credentials", Null)
            /\ fault' = "none"
       ELSE \E u \in {v \in DOMAIN users : users[v].userId = handle} :
               /\ fault' = "none"
               /\ res' = IF ~Compare(password, users[u].password)
                         THEN Response(401, "Invalid credentials", Null)
                         ELSE Response(200, "Login successful!",
                                       [token |-> Jwt(u, TRUE, FALSE),
                                        user |-> UserJson(users[u])])

Paths ==
    {"/", "/login", "/signup", "/dashboard", "/add-match", "/match-history"}

\* JSON.stringify and JSON.parse of the user object
Stringify(value) == [json |-> value]
Parse(text) == text.json

\* the element of the Route matching a location
Route(path, isAuthenticated) ==
    CASE path = "/login" ->
            IF ~isAuthenticated THEN [page |-> "Login", to |-> path]
            ELSE [page |-> "Navigate", to |-> "/dashboard"]
      [] path = "/signup" ->
            IF ~isAuthenticated THEN [page |-> "Signup", to |-> path]
            ELSE [page |-> "Navigate", to |-> "/dashboard"]
      [] path = "/dashboard" ->
            IF isAuthenticated THEN [page |-> "Dashboard", to |-> path]
            ELSE [page |-> "Navigate", to |-> "/login"]
      [] path = "/add-match" ->
            IF isAuthenticated THEN [page |-> "AddMatchStats", to |-> path]
            ELSE [page |-> "Navigate", to |-> "/login"]
      [] path = "/match-history" ->
            IF isAuthenticated THEN [page |-> "MatchHistory", to |-> path]
            ELSE [page |-> "Navigate", to |-> "/login"]
      [] OTHER -> [page |-> "Home", to |-> "/"]

\* the App rendered at a location, a Navigate element followed
Render(a, path) ==
    LET first == Route(path, a.isAuthenticated)
        last == IF first.page = "Navigate"
                THEN Route(first.to, a.isAuthenticated)
                ELSE first
    IN  IF a.loading
        THEN [a EXCEPT !.location = path, !.page = "Loading"]
        ELSE [a EXCEPT !.location = last.to, !.page = last.page]

\* handleLogin and handleSignup, which have the same body
handleLogin(a, token, userData) ==
    [a EXCEPT !.localStorage = [token |-> token, user |-> Stringify(userData)],
              !.isAuthenticated = TRUE,
              !.user = userData]

\* a logout that leaves the session in localStorage
handleLogout_KeepItems(a) ==
    [a EXCEPT !.isAuthenticated = FALSE, !.user = Null]

handleLogout(a) ==
    [a EXCEPT !.localStorage = NoItems,
              !.isAuthenticated = FALSE,
              !.user = Null]

\* the useEffect of the App after its first render
useEffect(a) ==
    IF a.localStorage.token # Null /\ a.localStorage.user # Null
    THEN [a EXCEPT !.isAuthenticated = TRUE,
                   !.user = Parse(a.localStorage.user),
                   !.loading = FALSE]
    ELSE [a EXCEPT !.loading = FALSE]

\* the server is not called
NoRequest == UNCHANGED <<users, tokens, matches, nextMatchId, fault, req, res, calls>>

\* the browser opens or reloads the site at a path
Open(path) ==
    /\ app' = Mounted(app.localStorage, path)
    /\ NoRequest

\* the effect runs and the routes are rendered
Load ==
    /\ app.loading
    /\ app' = Render(useEffect(app), app.location)
    /\ NoRequest

\* a Link, navigate() or the history moves the loaded App to a path
Go(path) ==
    /\ ~app.loading
    /\ app' = Render(app, path)
    /\ NoRequest

\* handleSubmit of the Login page
SubmitLogin(handle, password, f) ==
    /\ app.page = "Login"
    /\ Login(handle, password, f)
    /\ app' = IF res'.status < 300
              THEN Render(handleLogin(app, res'.stats.token, res'.stats.user),
                          "/dashboard")
              ELSE app

\* handleSubmit of the Signup page; the token and the user object of the
\* response are those of the account created
SubmitSignup(handle, f) ==
    /\ app.page = "Signup"
    /\ Signup(handle, f)
    /\ app' = IF res'.status < 300
              THEN LET id == CHOOSE u \in DOMAIN users' : u \notin DOMAIN users
                   IN  Render(handleLogin(app, Jwt(id, TRUE, FALSE),
                                          UserJson(users'[id])),
                              "/dashboard")
              ELSE app

\* handleLogout of the Navbar, whose button shows while isAuthenticated
ClickLogout ==
    /\ ~app.loading
    /\ app.isAuthenticated
    /\ app' = Render(handleLogout(app), "/")
    /\ NoRequest

\* handleDeleteAccount of the Dashboard with the token of localStorage
ClickDeleteAccount(f) ==
    /\ app.page = "Dashboard"
    /\ app.localStorage.token # Null
    /\ \/ Deny("DELETE /api/user/me", Bearer(app.localStorage.token))
       \/ \E id \in UserIds :
             /\ Admit(Bearer(app.localStorage.token), id)
             /\ DeleteAccount(id, f)
             /\ app' = IF res'.status < 300
                       THEN Render(handleLogout([app EXCEPT !.localStorage = NoItems]),
                                   "/")
                       ELSE app

\* the 24 hours of the token in localStorage pass
Expire ==
    /\ app.localStorage.token # Null
    /\ ~app.localStorage.token.expired
    /\ app' = [app EXCEPT !.localStorage.token.expired = TRUE]
    /\ NoRequest

BrowserNext ==
    \/ \E path \in Paths : Open(path)
    \/ Load
    \/ \E path \in Paths : Go(path)
    \/ \E h \in Handles \cup {""}, p \in Passwords, f \in {"none", "findOne"} :
          SubmitLogin(h, p, f)
    \/ \E h \in Handles \cup {""}, f \in SignupFaults : SubmitSignup(h, f)
    \/ ClickLogout
    \/ \E f \in AccountFaults : ClickDeleteAccount(f)
    \/ Expire

BrowserSpec == Init /\ [][BrowserNext]_vars

----------------------------------------------------------------------------
(* Frontend: what the pages show of a summary                              *)

\* the Number x as an exact quotient, for toFixed
AsQuotient(x) ==
    IF x.kind = "finite"
    THEN [kind |-> "ratio", num |-> x.hundredths, den |-> 100]
    ELSE x

\* stats.<field>.toFixed(digits) of the Dashboard and Home pages
Shown(x, digits) == toFixed(AsQuotient(x), digits)

\* the Win Rate card of the Dashboard: the figures before W and before L
WinRateCard(stats) ==
    [W |-> stats.wins, L |-> stats.totalGames - stats.wins]

\* Math.round(x)
MathRound(x) ==
    IF x.kind = "ratio"
    THEN [kind |-> "integer", value |-> (2 * x.num + x.den) \div (2 * x.den)]
    ELSE [kind |-> x.kind]

\* a row of the MatchHistory table for a match of GET /api/user/me/matches:
\* the K/D text and the damage per round
MatchRow(match) ==
    [kd |-> IF match.deaths > 0
            THEN toFixed(Divide(match.kills, match.deaths), 2)
            ELSE toFixed(Divide(match.kills, 1), 2),
     perRound |-> MathRound(Divide(match.damage, match.rounds))]

----------------------------------------------------------------------------
(* Properties *)

\* the positions of the Match documents of account u
OwnedBy(u) == {i \in 1..Len(matches) : matches[i].userId = u}

\* the sum of a field over the Match documents at the positions S
RECURSIVE SumOver(_, _)
SumOver(S, field) ==
    IF S = {} THEN 0
    ELSE LET i == CHOOSE j \in S : TRUE
         IN  matches[i][field] + SumOver(S \ {i}, field)

Abs(n) == IF n < 0 THEN -n ELSE n

\* x (a ratio field) is num/den rounded to `digits` decimals: a finite
\* multiple of 10^-digits at most half a unit away from num/den
RoundedTo(x, num, den, digits) ==
    /\ x.kind = "finite"
    /\ x.hundredths % Pow10(2 - digits) = 0
    /\ 2 * Abs((x.hundredths \div Pow10(2 - digits)) * den - num * Pow10(digits))
          <= den

\* the last request was an add-match or delete-match of account u1 that
\* succeeded: res.stats is what calculateUserStats returned on `matches`
Aggregated ==
    res.message \in {"Match added successfully!", "Match deleted successfully!"}

\* C1: every stored account's summary equals the aggregate of the Match
\* documents currently stored for it.
C1_SummaryIsAggregate ==
    \A u \in DOMAIN users : Summary(users[u]) = StatsOf(Find(matches, u))

\* C2: when the aggregation or the summary write of an add-match or
\* delete-match request rejects, the response is 500 and no stored account
\* changes any of its eleven summary fields.
C2_FailureKeepsSummary ==
    [][fault' \in {"find", "update"}
         => /\ res'.status = 500
            /\ DOMAIN users' = DOMAIN users
            /\ \A u \in DOMAIN users : Summary(users'[u]) = Summary(users[u])]_vars

\* an add-match whose aggregation or summary write rejected after the match
\* was stored: the account still has the summary of before
C2_Witness ==
    /\ fault \in {"find", "update"}
    /\ res = Response(500, "Error adding match", Null)
    /\ \E u \in DOMAIN users :
          /\ OwnedBy(u) # {}
          /\ \E i \in OwnedBy(u) : matches[i]._id = nextMatchId - 1
          /\ users[u].totalGames < Cardinality(OwnedBy(u))

\* C3: for an account without Match documents calculateUserStats returns
\* exactly the eleven fields, each the number 0: the request that leaves the
\* account without Match documents is answered with them.
C3_EmptyIsZero ==
    (req.id = "u1" /\ res.status # 404 /\ OwnedBy("u1") = {})
       => /\ Aggregated
          /\ DOMAIN res.stats = StatFields
          /\ \A f \in CountFields : res.stats[f] = 0
          /\ \A f \in RatioFields : res.stats[f] = Finite(0)

\* the only match of the account was deleted and the stats recomputed
C3_Witness ==
    /\ res.message = "Match deleted successfully!"
    /\ OwnedBy("u1") = {}
    /\ nextMatchId > 1

\* C4: for a non-empty match set the counters are the sums over the records,
\* wins counts the records with outcome Win only, totalGames the records.
C4_Totals ==
    (Aggregated /\ OwnedBy("u1") # {})
       => LET S == OwnedBy("u1")
          IN  /\ res.stats.kills = SumOver(S, "kills")
              /\ res.stats.deaths = SumOver(S, "deaths")
              /\ res.stats.assists = SumOver(S, "assists")
              /\ res.stats.totalDamage = SumOver(S, "damage")
              /\ res.stats.totalRounds
                    = SumOver(S, "roundsWon") + SumOver(S, "roundsLost")
              /\ res.stats.wins
                    = Cardinality({i \in S : matches[i].outcome = "Win"})
              /\ res.stats.totalGames = Cardinality(S)

\* three records, a Win, a Loss and a Draw, with kills, deaths, assists,
\* damage and rounds all positive in total
C4_Witness ==
    /\ Aggregated
    /\ {matches[i].outcome : i \in OwnedBy("u1")} = Outcomes
    /\ res.stats.wins = 1 /\ res.stats.totalGames = 3
    /\ res.stats.kills > 0 /\ res.stats.deaths > 0 /\ res.stats.assists > 0
    /\ res.stats.totalDamage > 0 /\ res.stats.totalRounds > 0

\* C5: kdRatio is kills/deaths rounded to 2 decimals when there are deaths,
\* and the raw kill count when there are none; never NaN or Infinity.
C5_KdRatio ==
    (Aggregated /\ OwnedBy("u1") # {})
       => LET K == SumOver(OwnedBy("u1"), "kills")
              D == SumOver(OwnedBy("u1"), "deaths")
          IN  IF D > 0 THEN RoundedTo(res.stats.kdRatio, K, D, 2)
              ELSE res.stats.kdRatio = Finite(100 * K)

\* a single record with 5 kills and no deaths gives kdRatio 5
C5_Witness ==
    /\ Aggregated
    /\ Cardinality(OwnedBy("u1")) = 1
    /\ \A i \in OwnedBy("u1") : matches[i].kills = 5 /\ matches[i].deaths = 0
    /\ res.stats.kdRatio = Finite(500)

\* kills/deaths is not a multiple of 0.01: 5/3 is stored as 1.67
C5_WitnessRounded ==
    /\ Aggregated
    /\ res.stats.kills = 5 /\ res.stats.deaths = 3
    /\ res.stats.kdRatio = Finite(167)

\* C6: damagePerRound is damage/rounds rounded to an integer when rounds
\* were played, and 0 when none were; never NaN or Infinity.
C6_DamagePerRound ==
    (Aggregated /\ OwnedBy("u1") # {})
       => LET Dmg == SumOver(OwnedBy("u1"), "damage")
              R == SumOver(OwnedBy("u1"), "roundsWon")
                     + SumOver(OwnedBy("u1"), "roundsLost")
          IN  IF R > 0 THEN RoundedTo(res.stats.damagePerRound, Dmg, R, 0)
              ELSE res.stats.damagePerRound = Finite(0)

\* records with damage but without rounds
C6_Witness ==
    /\ Aggregated
    /\ OwnedBy("u1") # {}
    /\ res.stats.totalRounds = 0 /\ res.stats.totalDamage > 0
    /\ res.stats.damagePerRound = Finite(0)

\* 5 damage in 3 rounds is stored as 2
C6_WitnessRounded ==
    /\ Aggregated
    /\ res.stats.totalDamage = 5 /\ res.stats.totalRounds = 3
    /\ res.stats.damagePerRound = Finite(200)

\* C7: winPercentage is wins/totalGames*100 rounded to 1 decimal, between
\* 0 and 100.
C7_WinPercentage ==
    (Aggregated /\ OwnedBy("u1") # {})
       => LET S == OwnedBy("u1")
              W == Cardinality({i \in S : matches[i].outcome = "Win"})
          IN  /\ RoundedTo(res.stats.winPercentage, 100 * W, Cardinality(S), 1)
              /\ res.stats.winPercentage.hundredths >= 0
              /\ res.stats.winPercentage.hundredths <= 10000

\* two wins in three games are stored as 66.7
C7_Witness ==
    /\ Aggregated
    /\ res.stats.wins = 2 /\ res.stats.totalGames = 3
    /\ res.stats.winPercentage = Finite(6670)

\* C8: killsPerRound is kills/rounds rounded to 2 decimals when rounds were
\* played, and 0 when none were.
C8_KillsPerRound ==
    (Aggregated /\ OwnedBy("u1") # {})
       => LET K == SumOver(OwnedBy("u1"), "kills")
              R == SumOver(OwnedBy("u1"), "roundsWon")
                     + SumOver(OwnedBy("u1"), "roundsLost")
          IN  IF R > 0 THEN RoundedTo(res.stats.killsPerRound, K, R, 2)
              ELSE res.stats.killsPerRound = Finite(0)

\* 5 kills in 9 rounds are stored as 0.56
C8_Witness ==
    /\ Aggregated
    /\ res.stats.kills = 5 /\ res.stats.totalRounds = 9
    /\ res.stats.killsPerRound = Finite(56)

\* kills without rounds
C8_WitnessNoRounds ==
    /\ Aggregated
    /\ res.stats.kills > 0 /\ res.stats.totalRounds = 0
    /\ res.stats.killsPerRound = Finite(0)

\* C9: in every stored summary totalGames is the number of Match documents
\* of the account and 0 <= wins <= totalGames.
C9_StoredCounts ==
    \A u \in DOMAIN users :
        /\ users[u].totalGames = Cardinality(OwnedBy(u))
        /\ 0 <= users[u].wins
        /\ users[u].wins <= users[u].totalGames

Orders(n) ==
    {p \in [1..n -> 1..n] : \A i, j \in 1..n : p[i] = p[j] => i = j}

\* C11: in whatever order Match.find returns the Match documents of the
\* account, calculateUserStats returns the same summary.
C11_OrderIndependent ==
    Aggregated
       => LET found == Find(matches, "u1")
          IN  \A p \in Orders(Len(found)) :
                  StatsOf([i \in 1..Len(found) |-> found[p[i]]]) = res.stats

\* three records, a Win, a Loss and a Draw, that differ pairwise in kills
C11_Witness ==
    /\ Aggregated
    /\ Cardinality(OwnedBy("u1")) = 3
    /\ {matches[i].outcome : i \in OwnedBy("u1")} = Outcomes
    /\ \A i, j \in OwnedBy("u1") : i # j => matches[i].kills # matches[j].kills

\* the documents stored for a body of the worked example
IsExample(m, body) == m = NewMatch(m._id, "u1", body)

\* C12: for the two records of the worked example the summary has
\* totalGames 2, wins 1, totalRounds 25, kills 23, deaths 22, kdRatio 1.05,
\* damagePerRound 224, winPercentage 50.0 and killsPerRound 0.92.
C12_WorkedExample ==
    (/\ Aggregated
     /\ Cardinality(OwnedBy("u1")) = 2
     /\ \E i \in OwnedBy("u1") : IsExample(matches[i], ExampleWin)
     /\ \E i \in OwnedBy("u1") : IsExample(matches[i], ExampleLoss))
       => /\ res.stats.totalGames = 2
          /\ res.stats.wins = 1
          /\ res.stats.totalRounds = 25
          /\ res.stats.kills = 23
          /\ res.stats.deaths = 22
          /\ res.stats.kdRatio = Finite(105)
          /\ res.stats.damagePerRound = Finite(22400)
          /\ res.stats.winPercentage = Finite(5000)
          /\ res.stats.killsPerRound = Finite(92)

\* the Loss record was added first, the Win record second
C12_Witness ==
    /\ res.message = "Match added successfully!"
    /\ Cardinality(OwnedBy("u1")) = 2
    /\ \E i, j \in OwnedBy("u1") :
           /\ i < j
           /\ IsExample(matches[i], ExampleLoss)
           /\ IsExample(matches[j], ExampleWin)
    /\ res.stats.kdRatio = Finite(105)

\* C13: when an add-match succeeds, a delete-match of the match just added
\* that succeeds right after it leaves the account with the stored summary
\* it had before the add.
C13_AddThenDelete ==
    [][(/\ res'.message = "Match added successfully!"
        /\ nextMatchId' = nextMatchId + 1
        /\ req'.id \in DOMAIN users)
          => LET id == req'.id
                 removed == DeleteOne(matches', nextMatchId, id)
                 updatedStats == calculateUserStats(removed, id, FALSE)
             IN  Summary(FindByIdAndUpdate(users', id, updatedStats)[id])
                    = Summary(users[id])]_vars

\* C14: the step of a handler that runs calculateUserStats changes no Match
\* document and no User document; a User document changes only in a
\* handler's own findByIdAndUpdate step.
C14_NoSideEffects ==
    [][/\ \A c \in Connections :
             (calls[c].await = "find" /\ calls'[c].await = "update")
                => (matches' = matches /\ users' = users)
       /\ users' # users
             => \E c \in Connections :
                   calls[c].await = "update" /\ calls'[c].await = "respond"]_vars

\* calculateUserStats has returned a summary that differs from the stored
\* one and the handler has not written it yet
C14_Witness ==
    \E c \in Connections :
        /\ calls[c].await = "update"
        /\ calls[c].updatedStats # Summary(users[calls[c].id])
        /\ calls[c].updatedStats.totalGames = Cardinality(OwnedBy(calls[c].id))

\* C15: after a reset-stats answered with success the requesting account
\* owns no Match document, its eleven stored summary fields are 0 and the
\* response carries the all-zero stats.
C15_ResetClears ==
    res.message = "All stats reset successfully!"
       => /\ res.status = 200
          /\ res.stats = ZeroStats
          /\ req.id \in DOMAIN users
          /\ OwnedBy(req.id) = {}
          /\ Summary(users[req.id]) = ZeroStats

\* a reset of one account after matches were added, while the other account
\* keeps a match and a summary that counts it
C15_Witness ==
    /\ res.message = "All stats reset successfully!"
    /\ nextMatchId = MaxAdds + 1
    /\ \E u \in DOMAIN users \ {req.id} :
           OwnedBy(u) # {} /\ users[u].totalGames = 1

\* a body with one of the eleven fields absent
Absent(body) ==
    \/ \E k \in TextFields : body[k] = ""
    \/ \E k \in NumberFields : body[k] = Undefined

\* a body with a negative number in one of the six numeric fields
Negative(body) ==
    \E k \in NumberFields : body[k].t = "number" /\ body[k].halves < 0

\* C16: an add-match whose body has a field absent or a negative numeric
\* field is answered with a non-success status, stores no Match document
\* and leaves the stored summaries as they are.
C16_RejectsInvalid ==
    [][\A body \in BoundaryBodies :
          ((Absent(body) \/ Negative(body)) /\ AddMatch("u1", body, "none"))
             => /\ res'.status >= 400
                /\ matches' = matches
                /\ users' = users]_vars

\* C17: every stored Match document has an outcome and a matchType of the
\* enumerations and non-negative integers in its six numeric fields, and
\* its rounds are roundsWon + roundsLost.
C17_StoredFieldsValid ==
    \A i \in 1..Len(matches) :
        /\ matches[i].outcome \in Outcomes
        /\ matches[i].matchType \in MatchTypes
        /\ \A k \in NumberFields :
               matches[i][k] \in Nat /\ matches[i][k] # InfinityCount
        /\ rounds(matches[i]) = matches[i].roundsWon + matches[i].roundsLost

\* C18: a Match document that is stored before and after a request has the
\* same value in every field.
C18_MatchesImmutable ==
    [][\A i \in 1..Len(matches), j \in 1..Len(matches') :
          matches'[j]._id = matches[i]._id => matches'[j] = matches[i]]_vars

\* the match added first is stored after the match added second was deleted
C18_Witness ==
    /\ res.message = "Match deleted successfully!"
    /\ req.matchId = 2
    /\ \E i \in 1..Len(matches) : matches[i]._id = 1

C19_WitnessNoSuchId ==
    /\ res = Response(404, "Match not found", Null)
    /\ matches # <<>>
    /\ \A i \in 1..Len(matches) : matches[i]._id # req.matchId

\* C20: every stored Match document is owned by a stored account.
C20_NoOrphans ==
    \A i \in 1..Len(matches) : matches[i].userId \in DOMAIN users

\* C21: for every stored summary the figures the pages show, kdRatio and
\* killsPerRound with 2 decimals, damagePerRound with 0 and winPercentage
\* with 1, have the numeric values of the stored fields.
C21_DisplayAgrees ==
    \A u \in DOMAIN users :
        /\ parseFloat(Shown(users[u].kdRatio, 2)) = users[u].kdRatio
        /\ parseFloat(Shown(users[u].killsPerRound, 2)) = users[u].killsPerRound
        /\ parseFloat(Shown(users[u].damagePerRound, 0)) = users[u].damagePerRound
        /\ parseFloat(Shown(users[u].winPercentage, 1)) = users[u].winPercentage

\* a stored summary whose four ratios were all rounded: 5 kills, 3 deaths,
\* 5 damage in 3 rounds, 2 wins in 3 games
C21_Witness ==
    /\ users["u1"].kdRatio = Finite(167)
    /\ users["u1"].killsPerRound = Finite(167)
    /\ users["u1"].damagePerRound = Finite(200)
    /\ users["u1"].winPercentage = Finite(6670)

\* C22: the updatedStats of a successful add-match or delete-match response
\* are the summary stored for the requester and the aggregate of the
\* requester's Match documents as the request left them.
C22_ResponseIsStored ==
    Aggregated
       => /\ req.id \in DOMAIN users
          /\ res.stats = Summary(users[req.id])
          /\ res.stats = StatsOf(Find(matches, req.id))

\* C23: when no request of the account is in flight, the stored summary is
\* the aggregate of the account's stored Match documents, however the
\* awaits of the completed requests interleaved.
C23_NoDriftWhenQuiet ==
    (\A c \in Connections : calls[c] = Idle)
       => Summary(users["u1"]) = StatsOf(Find(matches, "u1"))

\* C24: a request that is answered with an error status stores no Match
\* document and removes none.
C24_ErrorKeepsMatches ==
    [][res'.status >= 400 => matches' = matches]_vars

\* the fields of a User document outside the summary
Profile(doc) == [f \in (DOMAIN doc) \ StatFields |-> doc[f]]

Mutated ==
    res.message \in {"Match added successfully!", "Match deleted successfully!",
                     "All stats reset successfully!",
                     "Account deleted successfully!"}

\* C25: a successful add-match, delete-match, reset-stats or delete-account
\* of account A leaves every other account's document and Match documents
\* as they were, and, unless it is delete-account, leaves A's userId,
\* username, password and isPublic as they were.
C25_OnlyOwnData ==
    [][Mutated' =>
          /\ \A u \in (DOMAIN users) \ {req'.id} :
                 u \in DOMAIN users' /\ users'[u] = users[u]
          /\ \A u \in UserIds \ {req'.id} :
                 Find(matches', u) = Find(matches, u)
          /\ (req'.id \in DOMAIN users
                 /\ res'.message # "Account deleted successfully!")
              => /\ req'.id \in DOMAIN users'
                 /\ Profile(users'[req'.id]) = Profile(users[req'.id])]_vars

\* account u2 has added a match while account u1 has a match and a summary
C25_Witness ==
    /\ Mutated
    /\ req.id = "u2"
    /\ "u1" \in DOMAIN users
    /\ users["u1"].totalGames = 1
    /\ OwnedBy("u1") # {}
    /\ OwnedBy("u2") # {}

\* C26: on every protected route a request whose Authorization header
\* carries no token is answered 401 and one whose token fails verification
\* is answered 403; the middleware then does not call the handler, the
\* response carries no User or Match data and no document changes.
C26_DeniedWithoutToken ==
    [][/\ \A h \in Headers :
             /\ Len(h) < 2
                  => /\ ~authenticateToken(h).next
                     /\ authenticateToken(h).res.status = 401
             /\ (Len(h) >= 2 /\ ~Verify(h[2]))
                  => /\ ~authenticateToken(h).next
                     /\ authenticateToken(h).res.status = 403
       /\ "authorization" \in DOMAIN req'
            => /\ req'.route \in ProtectedRoutes
               /\ res'.status = IF Len(req'.authorization) < 2 THEN 401 ELSE 403
               /\ res'.stats = Null
               /\ users' = users
               /\ matches' = matches]_vars

\* delete-account was called with a forged token naming account u1, which
\* has a match and a summary
C26_Witness ==
    /\ "authorization" \in DOMAIN req
    /\ req.route = "DELETE /api/user/me"
    /\ req.authorization = Bearer(Jwt("u1", FALSE, FALSE))
    /\ res.status = 403
    /\ "u1" \in DOMAIN users
    /\ users["u1"].totalGames = 1
    /\ OwnedBy("u1") # {}

\* reset-stats was called without an Authorization header
C26_WitnessNoToken ==
    /\ "authorization" \in DOMAIN req
    /\ req.route = "DELETE /api/user/me/stats"
    /\ req.authorization = NoHeader
    /\ res.status = 401
    /\ OwnedBy("u2") # {}

\* C27: while an account's isPublic is false, GET /api/user/:userId answers
\* for it with the fixed 403 response, which carries no stats and no
\* matches, and GET /api/search/players lists only accounts whose isPublic
\* is true; so neither response depends on the matches or the summary of a
\* private account.
C27_PrivateNotExposed ==
    []["param" \in DOMAIN req' =>
          /\ req'.route = "GET /api/user/:userId"
                => \A u \in DOMAIN users :
                      (users[u].userId = req'.param /\ ~users[u].isPublic)
                         => res' = Response(403, "This player profile is private",
                                            Null)
          /\ (req'.route = "GET /api/search/players" /\ res'.status = 200)
                => /\ res'.stats.count = Len(res'.stats.players)
                   /\ \A k \in DOMAIN res'.stats.players :
                         \E u \in DOMAIN users :
                            /\ users[u].isPublic
                            /\ res'.stats.players[k] = Player(users[u])]_vars

\* the profile of account u1, private, with a match and a summary, was
\* requested
C27_Witness ==
    /\ "param" \in DOMAIN req
    /\ req.route = "GET /api/user/:userId"
    /\ req.param = "nolu"
    /\ "u1" \in DOMAIN users
    /\ ~users["u1"].isPublic
    /\ users["u1"].totalGames > 0
    /\ OwnedBy("u1") # {}
    /\ res.status = 403

\* a search matching the userId of the private account u1 found nobody
C27_WitnessSearch ==
    /\ "param" \in DOMAIN req
    /\ req.route = "GET /api/search/players"
    /\ req.param = <<"N", "O">>
    /\ "u1" \in DOMAIN users
    /\ ~users["u1"].isPublic
    /\ users["u1"].totalGames > 0
    /\ res.status = 200
    /\ res.stats.count = 0

\* C28: once the App has loaded, isAuthenticated is true exactly when
\* localStorage holds both the token and the user; Dashboard, AddMatchStats
\* and MatchHistory are rendered only while isAuthenticated is true, the
\* Login and Signup pages only while it is false, and the protected paths
\* lead to /login otherwise.
C28_AuthenticatedIffStored ==
    ~app.loading =>
        /\ app.isAuthenticated
              <=> (app.localStorage.token # Null /\ app.localStorage.user # Null)
        /\ app.page \in {"Dashboard", "AddMatchStats", "MatchHistory"}
              => app.isAuthenticated
        /\ app.page \in {"Login", "Signup"} => ~app.isAuthenticated
        /\ app.location \in {"/dashboard", "/add-match", "/match-history"}
              => app.isAuthenticated

\* the browser has logged out of a second session and shows the Login page
C28_Witness ==
    /\ ~app.loading
    /\ app.page = "Login"
    /\ ~app.isAuthenticated
    /\ app.localStorage = NoItems
    /\ Cardinality(DOMAIN users) = 1
    /\ Cardinality(tokens) = 2

\* the Dashboard shows for a session restored from localStorage on reload
C28_WitnessRestored ==
    /\ app.page = "Dashboard"
    /\ app.isAuthenticated
    /\ app.localStorage.token = Jwt("u2", TRUE, FALSE)
    /\ res.message = "Login successful!"

\* C29: on the Win Rate card the figure before W is the number of the
\* account's matches with outcome Win and the figure before L is the number
\* of its matches with outcome Loss.
C29_WinsAndLosses ==
    LET card == WinRateCard(Summary(users["u1"]))
    IN  /\ card.W = Cardinality({i \in OwnedBy("u1") : matches[i].outcome = "Win"})
        /\ card.L = Cardinality({i \in OwnedBy("u1") : matches[i].outcome = "Loss"})

\* C30: every stored match shows in the match history with a K/D text of
\* two decimals and a damage per round that is a finite integer.
C30_RowIsFinite ==
    \A i \in OwnedBy("u1") :
        LET row == MatchRow(MatchJson(matches[i]))
        IN  /\ row.kd.kind = "decimal"
            /\ row.kd.digits = 2
            /\ row.perRound.kind = "integer"

====
